---- MODULE Spec2Model ----
(***************************************************************************)
(* A model of the FedML utilities in                                       *)
(*   src/fedml_api/distributed/fedgkt/utils.py                             *)
(*   src/fedml_api/distributed/fedopt/FedOptAPI.py                         *)
(* Each group of functions is a small state machine with a specification   *)
(* of its own (SpecFlat, SpecAvg, SpecLoad, SpecBN, SpecFedOpt); the       *)
(* variables of the other groups rest at their idle values.                *)
(***************************************************************************)
EXTENDS Integers, Sequences, FiniteSets, TLC

VARIABLES
    \* ---- get_flat_params_from / set_flat_params_to (utils.py 17-32)
    fpc,          \* position: "idle", "flat", "set", "done", "raised"
    model,        \* model.parameters(): a sequence of tensors [shape, data]
    before,       \* history: the model as it was before the first call
    flat_params,  \* the vector get_flat_params_from returned
    arg,          \* the flat_params argument of set_flat_params_to
    prev_ind,     \* set_flat_params_to's running offset
    pidx,         \* set_flat_params_to's position in model.parameters()
    ranges,       \* history: the <<lo, hi>> slice bounds used, one per parameter
    \* ---- RunningAverage (utils.py 35-56)
    steps, total,
    calls,        \* history: the arguments of the update calls so far
    ret,          \* what the latest call returned
    \* ---- get_state_dict (utils.py 9-14)
    lpc,          \* "idle", "try", "except", "returned", "raised"
    file,         \* the file argument
    attempts,     \* history: the torch.load calls of this call, with outcomes
    lret,         \* the value returned or the exception propagated
    ncalls,       \* get_state_dict calls made so far
    \* ---- bnwd_optim_params / split_bn_params (utils.py 205-222)
    bpc,          \* "idle", "bn_list", "rem_list", "returned", "raised"
    bmodel,       \* the module tree
    model_params, master_params,
    mod_bn_params,\* what get_bn_params(model) returned: a set or a generator
    bi,           \* position of the running list comprehension in zipped_params
    mas_bn_params, mas_rem_params,
    bret,         \* bnwd_optim_params' return value
    \* ---- FedML_FedOpt_distributed (FedOptAPI.py 10-58)
    size,         \* comm.Get_size()
    pc,           \* per rank: position in the entry functions
    given,        \* per rank: the model_trainer argument of the caller
    model_trainer,\* per rank: the local variable model_trainer
    entered,      \* per rank, history: the role functions entered
    log,          \* per rank, history: constructors and manager calls, in order
    worker_num,   \* per rank: init_server's worker_num
    client_index, \* per rank: init_client's client_index
    set_id_calls, \* per rank, history: arguments of set_id calls
    handed        \* per rank: the trainer handed to FedOptAggregator/FedOptTrainer

varsFlat == <<fpc, model, before, flat_params, arg, prev_ind, pidx, ranges>>
varsAvg  == <<steps, total, calls, ret>>
varsLoad == <<lpc, file, attempts, lret, ncalls>>
varsBN   == <<bpc, bmodel, model_params, master_params, mod_bn_params, bi,
              mas_bn_params, mas_rem_params, bret>>
varsFed  == <<size, pc, given, model_trainer, entered, log, worker_num,
              client_index, set_id_calls, handed>>
vars == <<varsFlat, varsAvg, varsLoad, varsBN, varsFed>>

\* the variables of the other groups
restFlat == <<varsAvg, varsLoad, varsBN, varsFed>>
restAvg == <<varsFlat, varsLoad, varsBN, varsFed>>
restLoad == <<varsFlat, varsAvg, varsBN, varsFed>>
restBN == <<varsFlat, varsAvg, varsLoad, varsFed>>
restFed == <<varsFlat, varsAvg, varsLoad, varsBN>>

None == "None"

Min(a, b) == IF a < b THEN a ELSE b

(***************************************************************************)
(* Parameter flatten / unflatten                                           *)
(***************************************************************************)

\* Bounds of the flatten model.
MaxParams == 2
MaxNumel == 2

\* Element values: the code copies them and never inspects them.
ElemValues == {0, 1}

\* The shapes tried for a tensor of n elements: 1-D, 2-D and (n = 1) 0-D.
ShapesOf(n) == {<<n>>, <<1, n>>} \cup (IF n = 1 THEN {<< >>} ELSE {})

\* A contiguous tensor: its size() and its storage in row-major order.
Tensors ==
    UNION {{[shape |-> s, data |-> d] : s \in ShapesOf(n), d \in [1..n -> ElemValues]}
           : n \in 0..MaxNumel}

Models == UNION {[1..k -> Tensors] : k \in 0..MaxParams}

\* np.prod(list(param.size())): the product of the dimensions, 1 for a 0-D tensor.
RECURSIVE Prod(_)
Prod(s) == IF s = << >> THEN 1 ELSE Head(s) * Prod(Tail(s))

\* param.data.view(-1): the storage seen as one dimension (no copy).
ViewFlat(t) == t.data

\* torch.cat(params): a new vector, the 1-D tensors end to end.
RECURSIVE Cat(_)
Cat(ts) == IF ts = << >> THEN << >> ELSE Head(ts) \o Cat(Tail(ts))

\* get_flat_params_from(model); torch.cat raises on an empty list.
get_flat_params_from(m) ==
    LET params == [i \in 1..Len(m) |-> ViewFlat(m[i])]
    IN  IF params = << >> THEN [raised |-> TRUE, value |-> << >>]
        ELSE [raised |-> FALSE, value |-> Cat(params)]

\* flat_params[lo:hi]: Python slicing clamps at the end of the vector.
Slice(v, lo, hi) == SubSeq(v, Min(lo, Len(v)) + 1, Min(hi, Len(v)))

\* int(np.prod(list(param.size())))
FlatSize(t) == Prod(t.shape)

\* prev_ind += flat_size, with the forgotten update as a mutant
StaleOffset(prev, flat_size) == prev
Advance(prev, flat_size) == prev + flat_size

\* the lower bound of the slice, with an off-by-one mutant
SliceLoOffByOne(prev) == IF prev = 0 THEN 0 ELSE prev - 1
SliceLo(prev) == prev

\* The vectors set_flat_params_to is called with: the one just returned, an
\* updated one of the same length, one element short, one element long.
Flip(v) == [i \in 1..Len(v) |-> 1 - v[i]]
SetInputs(v) == {v, Flip(v), SubSeq(v, 1, Len(v) - 1), v \o <<0>>}

FlatIdle ==
    /\ fpc = "idle" /\ model = << >> /\ before = << >> /\ flat_params = << >>
    /\ arg = << >> /\ prev_ind = 0 /\ pidx = 0 /\ ranges = << >>

FlatInit ==
    /\ fpc = "idle"
    /\ model \in Models
    /\ before = model
    /\ flat_params = << >> /\ arg = << >>
    /\ prev_ind = 0 /\ pidx = 0 /\ ranges = << >>

\* flat_params = get_flat_params_from(model)
GetFlat ==
    /\ UNCHANGED restFlat
    /\ fpc = "idle"
    /\ LET r == get_flat_params_from(model)
       IN  /\ fpc' = IF r.raised THEN "raised" ELSE "flat"
           /\ flat_params' = r.value
    /\ UNCHANGED <<model, before, arg, prev_ind, pidx, ranges>>

\* set_flat_params_to(model, v): entry, prev_ind = 0 and the iterator at the start
SetFlatCall ==
    /\ UNCHANGED restFlat
    /\ fpc = "flat"
    /\ \E v \in SetInputs(flat_params) : arg' = v
    /\ prev_ind' = 0
    /\ pidx' = 1
    /\ fpc' = "set"
    /\ UNCHANGED <<model, before, flat_params, ranges>>

\* one iteration of the loop: .view(param.size()) raises when the slice has not
\* flat_size elements
SetFlatStep ==
    /\ UNCHANGED restFlat
    /\ fpc = "set"
    /\ pidx <= Len(model)
    /\ LET param == model[pidx]
           flat_size == FlatSize(param)
           lo == SliceLo(prev_ind)
           hi == prev_ind + flat_size
           piece == Slice(arg, lo, hi)
       IN  IF Len(piece) # flat_size
           THEN /\ fpc' = "raised"
                /\ UNCHANGED <<model, prev_ind, pidx, ranges>>
           ELSE /\ model' = [model EXCEPT ![pidx].data = piece]
                /\ prev_ind' = Advance(prev_ind, flat_size)
                /\ pidx' = pidx + 1
                /\ ranges' = Append(ranges, <<lo, hi>>)
                /\ fpc' = fpc
    /\ UNCHANGED <<before, flat_params, arg>>

\* the loop ends and set_flat_params_to returns
SetFlatReturn ==
    /\ UNCHANGED restFlat
    /\ fpc = "set"
    /\ pidx > Len(model)
    /\ fpc' = "done"
    /\ UNCHANGED <<model, before, flat_params, arg, prev_ind, pidx, ranges>>

FlatNext == GetFlat \/ SetFlatCall \/ SetFlatStep \/ SetFlatReturn

(***************************************************************************)
(* RunningAverage                                                          *)
(***************************************************************************)

\* Bounds of the running-average model: update calls, and |val|.
MaxUpdates == 3
MaxAbsVal == 4

UpdateValues == (0 - MaxAbsVal)..MaxAbsVal

Abs(x) == IF x < 0 THEN 0 - x ELSE x

RECURSIVE Gcd(_, _)
Gcd(a, b) == IF b = 0 THEN a ELSE Gcd(b, a % b)

\* a / float(b), b > 0: the quotient as a fraction in lowest terms
TrueDiv(a, b) ==
    LET g == Gcd(Abs(a), b)
    IN  [kind |-> "float", num |-> a \div g, den |-> b \div g]

\* what a call returns without a number: None, or the exception it raised
NoNumber(k) == [kind |-> k, num |-> 0, den |-> 1]

AvgIdle == steps = 0 /\ total = 0 /\ calls = << >> /\ ret = NoNumber("None")

\* __init__
AvgInit == steps = 0 /\ total = 0 /\ calls = << >> /\ ret = NoNumber("None")

\* self.total += val, with the overwriting slip as a mutant
TotalOverwritten(t, val) == val
TotalAfterUpdate(t, val) == t + val

\* update(val)
Update(val) ==
    /\ UNCHANGED restAvg
    /\ Len(calls) < MaxUpdates
    /\ total' = TotalAfterUpdate(total, val)
    /\ steps' = steps + 1
    /\ calls' = Append(calls, val)
    /\ ret' = NoNumber("None")

\* value(): total / float(steps); float division by zero raises
Value ==
    /\ UNCHANGED restAvg
    /\ ret' = IF steps = 0 THEN NoNumber("ZeroDivisionError") ELSE TrueDiv(total, steps)
    /\ UNCHANGED <<steps, total, calls>>

AvgNext == (\E val \in UpdateValues : Update(val)) \/ Value

(***************************************************************************)
(* get_state_dict                                                          *)
(***************************************************************************)

\* Bounds of the loader model: distinct snapshot contents, and calls.
MaxContent == 3
MaxLoadCalls == 3

Files == [content : 1..MaxContent, device : {"cpu", "cuda:0"}]

\* What a torch.load call can do: return, or raise.
LoadOutcomes == {"ok", "AssertionError", "RuntimeError"}

\* torch.load(file): the tensors on the device they were saved from
DirectLoad(f) == [kind |-> "state_dict", content |-> f.content, device |-> f.device]
\* torch.load(file, map_location=lambda storage, location: storage): on the CPU
MappedLoad(f) == [kind |-> "state_dict", content |-> f.content, device |-> "cpu"]

\* nothing returned yet, or the exception that left the function
NoDict(k) == [kind |-> k, content |-> 0, device |-> "none"]
NoFile == [content |-> 0, device |-> "none"]

\* except AssertionError, with the catch-all slip as a mutant
CatchesAny(e) == e # "ok"
Catches(e) == e = "AssertionError"

LoadIdle ==
    lpc = "idle" /\ file = NoFile /\ attempts = << >> /\ lret = NoDict("None") /\ ncalls = 0

LoadInit ==
    lpc = "idle" /\ file = NoFile /\ attempts = << >> /\ lret = NoDict("None") /\ ncalls = 0

\* get_state_dict(f) is called (again, once the previous call has ended)
LoadCall(f) ==
    /\ UNCHANGED restLoad
    /\ lpc \in {"idle", "returned", "raised"}
    /\ ncalls < MaxLoadCalls
    /\ ncalls' = ncalls + 1
    /\ file' = f
    /\ attempts' = << >>
    /\ lret' = NoDict("None")
    /\ lpc' = "try"

\* try: pretrain_state_dict = torch.load(file)
LoadTry(o) ==
    /\ UNCHANGED restLoad
    /\ lpc = "try"
    /\ attempts' = Append(attempts, [kind |-> "direct", outcome |-> o])
    /\ IF o = "ok" THEN lpc' = "return" /\ lret' = DirectLoad(file)
       ELSE IF Catches(o) THEN lpc' = "except" /\ lret' = lret
       ELSE lpc' = "raised" /\ lret' = NoDict(o)
    /\ UNCHANGED <<file, ncalls>>

\* except AssertionError: pretrain_state_dict = torch.load(file, map_location=...)
LoadExcept(o) ==
    /\ UNCHANGED restLoad
    /\ lpc = "except"
    /\ attempts' = Append(attempts, [kind |-> "cpu", outcome |-> o])
    /\ IF o = "ok" THEN lpc' = "return" /\ lret' = MappedLoad(file)
       ELSE lpc' = "raised" /\ lret' = NoDict(o)
    /\ UNCHANGED <<file, ncalls>>

\* return pretrain_state_dict
LoadReturn ==
    /\ UNCHANGED restLoad
    /\ lpc = "return"
    /\ lpc' = "returned"
    /\ UNCHANGED <<file, attempts, lret, ncalls>>

LoadNext ==
    \/ \E f \in Files : LoadCall(f)
    \/ \E o \in LoadOutcomes : LoadTry(o)
    \/ \E o \in LoadOutcomes : LoadExcept(o)
    \/ LoadReturn

(***************************************************************************)
(* bnwd_optim_params / split_bn_params                                     *)
(***************************************************************************)

\* Bound of the module-tree model: children of one container.
MaxChildren == 2

\* Modules without children: BatchNorm without (affine=False) and with weight
\* and bias, and a layer with one parameter.
LeafModules ==
    {[kind |-> "bn", own |-> 0, children |-> << >>],
     [kind |-> "bn", own |-> 2, children |-> << >>],
     [kind |-> "plain", own |-> 1, children |-> << >>]}

\* Containers of leaves.
BlockModules ==
    {[kind |-> "plain", own |-> 0, children |-> c] :
        c \in UNION {[1..k -> LeafModules] : k \in 1..MaxChildren}}

\* The models: a leaf alone, or a root (with or without a parameter of its
\* own) over leaves and blocks.
ModuleTrees ==
    LeafModules \cup
    {[kind |-> "plain", own |-> o, children |-> c] :
        o \in {0, 1},
        c \in UNION {[1..k -> LeafModules \cup BlockModules] : k \in 1..MaxChildren}}

\* module.parameters(): the module's own parameters, then its children's, in
\* order. A parameter is named by the path of child indices to its module and
\* its index there; two parameters are the same object iff their names agree.
RECURSIVE Parameters(_, _)
Parameters(module, path) ==
    LET own == [j \in 1..module.own |-> Append(path, j)]
        RECURSIVE Below(_)
        Below(i) == IF i > Len(module.children) THEN << >>
                    ELSE Parameters(module.children[i], Append(path, 0 - i)) \o Below(i + 1)
    IN  own \o Below(1)

SeqToSet(q) == {q[i] : i \in 1..Len(q)}

\* isinstance(module, torch.nn.modules.batchnorm._BatchNorm)
IsBatchNorm(module) == module.kind = "bn"

\* get_bn_params(module): for a batch-norm module the generator
\* module.parameters() itself, otherwise the set accumulated from the children
RECURSIVE get_bn_params(_, _)
get_bn_params(module, path) ==
    IF IsBatchNorm(module)
    THEN [type |-> "generator", items |-> Parameters(module, path), pos |-> 0, set |-> {}]
    ELSE [type |-> "set", items |-> << >>, pos |-> 0,
          set |-> UNION {LET r == get_bn_params(module.children[i], Append(path, 0 - i))
                         IN  r.set \cup SeqToSet(r.items)
                         : i \in 1..Len(module.children)}]

\* `e == p` for two distinct tensors in a truth context: bool() of a tensor
\* of several elements raises
TensorEqTruth(e, p) == "raised"

\* `p in c`. A set is looked up by identity. A generator is advanced from
\* where it stands until an element is p (identity first, then ==), or to its
\* end; what it has yielded is gone.
RECURSIVE GenScan(_, _, _)
GenScan(items, pos, p) ==
    IF pos >= Len(items) THEN [res |-> "False", pos |-> Len(items)]
    ELSE IF items[pos + 1] = p THEN [res |-> "True", pos |-> pos + 1]
    ELSE IF TensorEqTruth(items[pos + 1], p) = "raised" THEN [res |-> "raised", pos |-> pos + 1]
    ELSE GenScan(items, pos + 1, p)

Contains(c, p) ==
    IF c.type = "set"
    THEN [res |-> IF p \in c.set THEN "True" ELSE "False", pos |-> c.pos]
    ELSE GenScan(c.items, c.pos, p)

\* the fp32 master copy paired with a model parameter
MasterOf(p) == <<"master", p>>

BNIdle ==
    /\ bpc = "idle" /\ bmodel = None /\ model_params = << >> /\ master_params = << >>
    /\ mod_bn_params = None /\ bi = 0 /\ mas_bn_params = << >> /\ mas_rem_params = << >>
    /\ bret = None

\* bnwd_optim_params(model, list(model.parameters()), master copies) is called
BNInit ==
    /\ bpc = "call"
    /\ bmodel \in ModuleTrees
    /\ model_params = Parameters(bmodel, << >>)
    /\ master_params = [i \in 1..Len(model_params) |-> MasterOf(model_params[i])]
    /\ mod_bn_params = None /\ bi = 0 /\ mas_bn_params = << >> /\ mas_rem_params = << >>
    /\ bret = None

\* mod_bn_params = get_bn_params(model); zipped_params = list(zip(...))
SplitStart ==
    /\ UNCHANGED restBN
    /\ bpc = "call"
    /\ mod_bn_params' = get_bn_params(bmodel, << >>)
    /\ bi' = 1
    /\ bpc' = "bn_list"
    /\ UNCHANGED <<bmodel, model_params, master_params, mas_bn_params, mas_rem_params, bret>>

\* one element of [p_mast for p_mod, p_mast in zipped_params if p_mod in mod_bn_params]
BnListStep ==
    /\ UNCHANGED restBN
    /\ bpc = "bn_list"
    /\ bi <= Min(Len(model_params), Len(master_params))
    /\ LET r == Contains(mod_bn_params, model_params[bi])
       IN  /\ mod_bn_params' = [mod_bn_params EXCEPT !.pos = r.pos]
           /\ bpc' = IF r.res = "raised" THEN "raised" ELSE bpc
           /\ mas_bn_params' = IF r.res = "True" THEN Append(mas_bn_params, master_params[bi])
                               ELSE mas_bn_params
           /\ bi' = bi + 1
    /\ UNCHANGED <<bmodel, model_params, master_params, mas_rem_params, bret>>

\* the first comprehension ends, the second starts
BnListEnd ==
    /\ UNCHANGED restBN
    /\ bpc = "bn_list"
    /\ bi > Min(Len(model_params), Len(master_params))
    /\ bpc' = "rem_list"
    /\ bi' = 1
    /\ UNCHANGED <<bmodel, model_params, master_params, mod_bn_params, mas_bn_params,
                   mas_rem_params, bret>>

\* one element of [p_mast for p_mod, p_mast in zipped_params if p_mod not in mod_bn_params]
RemListStep ==
    /\ UNCHANGED restBN
    /\ bpc = "rem_list"
    /\ bi <= Min(Len(model_params), Len(master_params))
    /\ LET r == Contains(mod_bn_params, model_params[bi])
       IN  /\ mod_bn_params' = [mod_bn_params EXCEPT !.pos = r.pos]
           /\ bpc' = IF r.res = "raised" THEN "raised" ELSE bpc
           /\ mas_rem_params' = IF r.res = "False" THEN Append(mas_rem_params, master_params[bi])
                                ELSE mas_rem_params
           /\ bi' = bi + 1
    /\ UNCHANGED <<bmodel, model_params, master_params, mas_bn_params, bret>>

\* split_bn_params returns; bnwd_optim_params builds the two groups
BnwdReturn ==
    /\ UNCHANGED restBN
    /\ bpc = "rem_list"
    /\ bi > Min(Len(model_params), Len(master_params))
    /\ bret' = <<[params |-> mas_bn_params, weight_decay |-> 0],
                 [params |-> mas_rem_params]>>
    /\ bpc' = "returned"
    /\ UNCHANGED <<bmodel, model_params, master_params, mod_bn_params, bi, mas_bn_params,
                   mas_rem_params>>

BNNext == SplitStart \/ BnListStep \/ BnListEnd \/ RemListStep \/ BnwdReturn

(***************************************************************************)
(* FedML_init / FedML_FedOpt_distributed / init_server / init_client       *)
(***************************************************************************)

\* Bound of the orchestration model: comm.Get_size().
MaxWorld == 3

\* The ids a caller's own trainer may carry.
SuppliedIds == {0, 7}

Ranks == 0..(size - 1)

\* a trainer object: who made it, and its id
NoTrainer == [cls |-> "None", id |-> 0]
Supplied(ident) == [cls |-> "supplied", id |-> ident]
\* MyModelTrainer(model)
MyModelTrainer == [cls |-> "MyModelTrainer", id |-> 0]
\* model_trainer.set_id(ident)
SetId(t, ident) == [t EXCEPT !.id = ident]

\* if process_id == 0, with the wrong-rank slip as a mutant
IsServerRankOne(process_id) == process_id = 1
IsServer(process_id) == process_id = 0

\* worker_num = size - 1, with the off-by-one slip as a mutant
WorkerNumIsSize(sz) == sz
WorkerNum(sz) == sz - 1

\* client_index = process_id - 1
ClientIndex(process_id) == process_id - 1

\* if model_trainer is None: model_trainer = MyModelTrainer(model);
\* model_trainer.set_id(ident). The result and the set_id calls made; the
\* mutant sets the id of a supplied trainer too.
DefaultTrainerAlwaysSetId(t, ident) ==
    IF t = NoTrainer THEN [trainer |-> SetId(MyModelTrainer, ident), set_id |-> <<ident>>]
    ELSE [trainer |-> SetId(t, ident), set_id |-> <<ident>>]
DefaultTrainer(t, ident) ==
    IF t = NoTrainer THEN [trainer |-> SetId(MyModelTrainer, ident), set_id |-> <<ident>>]
    ELSE [trainer |-> t, set_id |-> << >>]

\* init_server after the trainer: the statements in program order, with the
\* run-before-init slip as a mutant
ServerBodyRunFirst ==
    <<"FedOptAggregator", "FedOptServerManager", "run", "send_init_msg">>
ServerBody ==
    <<"FedOptAggregator", "FedOptServerManager", "send_init_msg", "run">>

\* init_client after the trainer: the statements in program order
ClientBody == <<"FedOptTrainer", "FedOptClientManager", "run">>

FedIdle ==
    /\ size = 0 /\ pc = << >> /\ given = << >> /\ model_trainer = << >>
    /\ entered = << >> /\ log = << >> /\ worker_num = << >> /\ client_index = << >>
    /\ set_id_calls = << >> /\ handed = << >>

\* FedML_init on every rank of a world of `size` processes; each caller passes
\* its own model_trainer argument (None by default)
FedInit ==
    /\ size \in 1..MaxWorld
    /\ pc = [r \in Ranks |-> "start"]
    /\ given \in [Ranks -> {NoTrainer} \cup {Supplied(i) : i \in SuppliedIds}]
    /\ model_trainer = given
    /\ entered = [r \in Ranks |-> {}]
    /\ log = [r \in Ranks |-> << >>]
    /\ worker_num = [r \in Ranks |-> None]
    /\ client_index = [r \in Ranks |-> None]
    /\ set_id_calls = [r \in Ranks |-> << >>]
    /\ handed = [r \in Ranks |-> NoTrainer]

\* FedML_FedOpt_distributed(process_id, worker_number, ...)
Dispatch(r) ==
    /\ UNCHANGED restFed
    /\ pc[r] = "start"
    /\ IF IsServer(r)
       THEN /\ pc' = [pc EXCEPT ![r] = "init_server"]
            /\ entered' = [entered EXCEPT ![r] = @ \cup {"init_server"}]
       ELSE /\ pc' = [pc EXCEPT ![r] = "init_client"]
            /\ entered' = [entered EXCEPT ![r] = @ \cup {"init_client"}]
    /\ UNCHANGED <<size, given, model_trainer, log, worker_num, client_index,
                   set_id_calls, handed>>

\* init_server, lines 32-37: the default trainer with id -1, and worker_num
ServerTrainer(r) ==
    /\ UNCHANGED restFed
    /\ pc[r] = "init_server"
    /\ LET d == DefaultTrainer(model_trainer[r], -1)
       IN  /\ model_trainer' = [model_trainer EXCEPT ![r] = d.trainer]
           /\ set_id_calls' = [set_id_calls EXCEPT ![r] = @ \o d.set_id]
    /\ worker_num' = [worker_num EXCEPT ![r] = WorkerNum(size)]
    /\ pc' = [pc EXCEPT ![r] = "server_body"]
    /\ UNCHANGED <<size, given, entered, log, client_index, handed>>

\* init_server, lines 38-45: the next statement of the body
ServerStep(r) ==
    /\ UNCHANGED restFed
    /\ pc[r] = "server_body"
    /\ Len(log[r]) < Len(ServerBody)
    /\ LET stmt == ServerBody[Len(log[r]) + 1]
       IN  /\ log' = [log EXCEPT ![r] = Append(@, stmt)]
           /\ handed' = IF stmt = "FedOptAggregator"
                        THEN [handed EXCEPT ![r] = model_trainer[r]] ELSE handed
    /\ UNCHANGED <<size, pc, given, model_trainer, entered, worker_num, client_index,
                   set_id_calls>>

\* init_client, lines 50-53: client_index, and the default trainer with that id
ClientTrainer(r) ==
    /\ UNCHANGED restFed
    /\ pc[r] = "init_client"
    /\ client_index' = [client_index EXCEPT ![r] = ClientIndex(r)]
    /\ LET d == DefaultTrainer(model_trainer[r], ClientIndex(r))
       IN  /\ model_trainer' = [model_trainer EXCEPT ![r] = d.trainer]
           /\ set_id_calls' = [set_id_calls EXCEPT ![r] = @ \o d.set_id]
    /\ pc' = [pc EXCEPT ![r] = "client_body"]
    /\ UNCHANGED <<size, given, entered, log, worker_num, handed>>

\* init_client, lines 55-58: the next statement of the body
ClientStep(r) ==
    /\ UNCHANGED restFed
    /\ pc[r] = "client_body"
    /\ Len(log[r]) < Len(ClientBody)
    /\ LET stmt == ClientBody[Len(log[r]) + 1]
       IN  /\ log' = [log EXCEPT ![r] = Append(@, stmt)]
           /\ handed' = IF stmt = "FedOptTrainer"
                        THEN [handed EXCEPT ![r] = model_trainer[r]] ELSE handed
    /\ UNCHANGED <<size, pc, given, model_trainer, entered, worker_num, client_index,
                   set_id_calls>>

FedNext ==
    \/ \E r \in Ranks : Dispatch(r)
    \/ \E r \in Ranks : ServerTrainer(r)
    \/ \E r \in Ranks : ServerStep(r)
    \/ \E r \in Ranks : ClientTrainer(r)
    \/ \E r \in Ranks : ClientStep(r)

(***************************************************************************)
(* The specifications                                                      *)
(***************************************************************************)

InitFlat == FlatInit /\ AvgIdle /\ LoadIdle /\ BNIdle /\ FedIdle
InitAvg == AvgInit /\ FlatIdle /\ LoadIdle /\ BNIdle /\ FedIdle
InitLoad == LoadInit /\ FlatIdle /\ AvgIdle /\ BNIdle /\ FedIdle
InitBN == BNInit /\ FlatIdle /\ AvgIdle /\ LoadIdle /\ FedIdle
InitFed == FedInit /\ FlatIdle /\ AvgIdle /\ LoadIdle /\ BNIdle

SpecFlat == InitFlat /\ [][FlatNext]_vars
SpecAvg == InitAvg /\ [][AvgNext]_vars
SpecLoad == InitLoad /\ [][LoadNext]_vars
SpecBN == InitBN /\ [][BNNext]_vars
SpecFedOpt == InitFed /\ [][FedNext]_vars

(***************************************************************************)
(* Properties                                                              *)
(***************************************************************************)

RECURSIVE SumSeq(_)
SumSeq(q) == IF q = << >> THEN 0 ELSE Head(q) + SumSeq(Tail(q))

Count(q, x) == Cardinality({i \in 1..Len(q) : q[i] = x})

IsPrefix(q, full) == Len(q) <= Len(full) /\ q = SubSeq(full, 1, Len(q))

\* the element count of a tensor, and the elements before parameter i
Numel(t) == Len(t.data)
Offset(m, i) == SumSeq([j \in 1..(i - 1) |-> Numel(m[j])])
TotalNumel(m) == Offset(m, Len(m) + 1)

\* C1: set_flat_params_to(model, get_flat_params_from(model)) leaves the
\* number, order and shapes of the parameters and every element of every
\* parameter as they were; the pair of calls raises only for a model without
\* parameters (torch.cat of an empty list), and then too the model is as before.
C1_RoundTrip ==
    (fpc # "idle" /\ arg = flat_params) =>
        /\ Len(model) = Len(before)
        /\ \A i \in 1..Len(model) : model[i].shape = before[i].shape
        /\ fpc = "done" =>
              \A i \in 1..Len(model) :
                  /\ Len(model[i].data) = Len(before[i].data)
                  /\ \A j \in 1..Len(model[i].data) : model[i].data[j] = before[i].data[j]
        /\ fpc = "raised" => (Len(before) = 0 /\ model = before)

\* C1's case: a round trip over two parameters of different sizes and values
C1_Witness ==
    /\ fpc = "done" /\ arg = flat_params
    /\ Len(model) = 2
    /\ model[1].data = <<0, 1>> /\ model[1].shape = <<1, 2>>
    /\ model[2].data = <<1>> /\ model[2].shape = << >>

\* C4: the flattened vector has as many elements as the parameters together,
\* parameter i lies in it at [elements before i, that + its element count) in
\* its own order; set_flat_params_to slices at the same offsets, the slices of
\* different parameters do not overlap, each parameter receives exactly its
\* slice, and the final offset is the length of the flattened vector.
C4_Layout ==
    /\ (fpc # "idle" /\ Len(before) > 0) =>
          /\ Len(flat_params) = TotalNumel(before)
          /\ \A i \in 1..Len(before) :
                SubSeq(flat_params, Offset(before, i) + 1,
                       Offset(before, i) + Numel(before[i])) = before[i].data
    /\ \A i \in 1..Len(ranges) :
          ranges[i] = <<Offset(before, i), Offset(before, i) + Numel(before[i])>>
    /\ \A i, j \in 1..Len(ranges) : i < j => ranges[i][2] <= ranges[j][1]
    /\ fpc = "set" => (Len(ranges) = pidx - 1 /\ prev_ind = Offset(before, pidx))
    /\ fpc = "done" =>
          /\ Len(ranges) = Len(model)
          /\ prev_ind = Len(flat_params)
          /\ \A i \in 1..Len(model) :
                model[i].data = SubSeq(arg, ranges[i][1] + 1, ranges[i][2])

\* C4's case: a vector other than the one flattened is sliced into two
\* parameters, the second at offset 2
C4_Witness ==
    /\ fpc = "done" /\ arg # flat_params
    /\ Len(ranges) = 2 /\ ranges[2] = <<2, 3>>
    /\ model[1].data # before[1].data

\* C2: steps is the number of update calls and total the sum of their
\* arguments in every state (value() included); a value() after n >= 1
\* updates returns the arithmetic mean, and it raises only when n = 0.
C2_Mean ==
    /\ steps = Len(calls)
    /\ total = SumSeq(calls)
    /\ ret.kind = "float" =>
          /\ Len(calls) >= 1
          /\ ret.den > 0
          /\ ret.num * Len(calls) = SumSeq(calls) * ret.den
    /\ ret.kind = "ZeroDivisionError" => Len(calls) = 0

\* C2's case: the docstring's example, update(2), update(4), value() = 3
C2_Witness ==
    /\ calls = <<2, 4>>
    /\ ret = [kind |-> "float", num |-> 3, den |-> 1]

\* C3: rank 0 enters init_server and never init_client, every other rank
\* enters init_client and never init_server, whatever else it was called with;
\* once every rank has been dispatched exactly one process is the server.
C3_Roles ==
    /\ \A r \in Ranks :
          /\ r = 0 => entered[r] \subseteq {"init_server"}
          /\ r # 0 => entered[r] \subseteq {"init_client"}
          /\ pc[r] # "start" => Cardinality(entered[r]) = 1
    /\ (\A r \in Ranks : pc[r] # "start") =>
          Cardinality({r \in Ranks : "init_server" \in entered[r]}) = 1

\* C3's case: a world of three, all dispatched, a supplied trainer at rank 0
C3_Witness ==
    /\ size = 3
    /\ \A r \in Ranks : pc[r] # "start"
    /\ given[0] # NoTrainer /\ given[1] = NoTrainer

\* C7: the server constructs the aggregator, then the server manager, then
\* sends the init message once, and only then enters run(); a client
\* constructs its trainer and its manager and enters run(), and never sends
\* an init message.
C7_InitBeforeRun ==
    \A r \in Ranks :
        /\ "init_server" \in entered[r] =>
              /\ IsPrefix(log[r], <<"FedOptAggregator", "FedOptServerManager",
                                    "send_init_msg", "run">>)
              /\ Count(log[r], "send_init_msg") <= 1
              /\ \A i \in 1..Len(log[r]) :
                    log[r][i] = "run" =>
                        \E j \in 1..(i - 1) : log[r][j] = "send_init_msg"
        /\ "init_client" \in entered[r] =>
              /\ IsPrefix(log[r], <<"FedOptTrainer", "FedOptClientManager", "run">>)
              /\ Count(log[r], "send_init_msg") = 0

\* C7's case: the server and a client have both entered run()
C7_Witness ==
    /\ size >= 2
    /\ Len(log[0]) = 4 /\ log[0][4] = "run"
    /\ Len(log[1]) = 3 /\ log[1][3] = "run"

\* C8: the aggregator's worker_num is size - 1, the client at rank r has
\* client_index r - 1, and once every rank has got that far the client
\* indices are exactly 0 .. worker_num - 1, each with one process.
C8_ClientIndices ==
    LET clients == {r \in Ranks : pc[r] = "client_body"}
        servers == {r \in Ranks : pc[r] = "server_body"}
    IN  /\ \A r \in servers : worker_num[r] = size - 1
        /\ \A r \in clients : client_index[r] = r - 1 /\ r \in 1..(size - 1)
        /\ (clients \cup servers = Ranks) =>
              /\ servers = {0}
              /\ {client_index[r] : r \in clients} = 0..(worker_num[0] - 1)
              /\ \A r1, r2 \in clients : client_index[r1] = client_index[r2] => r1 = r2
              /\ Cardinality(clients) = worker_num[0]

\* C8's case: a world of three with every rank past its index computation
C8_Witness ==
    /\ size = 3
    /\ \A r \in Ranks : pc[r] \in {"client_body", "server_body"}
    /\ client_index[2] = 1

\* C10: with model_trainer = None the trainer handed on is a new
\* MyModelTrainer whose id was set (once) to -1 on the server and to
\* process_id - 1 on a client; a supplied trainer never has set_id called
\* and is handed on as it was passed.
C10_TrainerIdentity ==
    \A r \in Ranks :
        /\ given[r] # NoTrainer => (set_id_calls[r] = << >> /\ model_trainer[r] = given[r])
        /\ Len(log[r]) >= 1 =>
              IF given[r] = NoTrainer
              THEN LET ident == IF "init_server" \in entered[r] THEN -1 ELSE r - 1
                   IN  /\ handed[r] = [cls |-> "MyModelTrainer", id |-> ident]
                       /\ set_id_calls[r] = <<ident>>
              ELSE handed[r] = given[r]

\* C10's case: a default trainer handed on at the server and at rank 2, a
\* supplied one at rank 1
C10_Witness ==
    /\ size = 3
    /\ given[0] = NoTrainer /\ given[1] = Supplied(7) /\ given[2] = NoTrainer
    /\ \A r \in Ranks : Len(log[r]) >= 1
    /\ handed[2].id = 1

\* C5: the first load is the direct one; a second load is made exactly when
\* the direct one raised AssertionError, it is the CPU-mapped one and it is made
\* once; the function returns the result of the load that succeeded, and any
\* other exception of the direct load and any exception of the fallback leaves
\* the function.
C5_Fallback ==
    LET n == Len(attempts)
    IN  /\ n <= 2
        /\ n >= 1 => attempts[1].kind = "direct"
        /\ n = 2 => (attempts[1].outcome = "AssertionError" /\ attempts[2].kind = "cpu")
        /\ lpc = "try" => n = 0
        /\ lpc = "except" => n = 1
        /\ lpc \in {"return", "returned", "raised"} =>
              /\ n >= 1
              /\ (n = 2) <=> (attempts[1].outcome = "AssertionError")
        /\ lpc \in {"return", "returned"} =>
              /\ attempts[n].outcome = "ok"
              /\ lret = IF n = 1 THEN DirectLoad(file) ELSE MappedLoad(file)
        /\ lpc = "raised" =>
              /\ attempts[n].outcome # "ok"
              /\ lret.kind = attempts[n].outcome

\* C5's case: the direct load of a snapshot saved from a GPU raised
\* AssertionError and the fallback returned it on the CPU
C5_Witness ==
    /\ lpc = "returned"
    /\ Len(attempts) = 2
    /\ file.device = "cuda:0"
    /\ lret.kind = "state_dict" /\ lret.device = "cpu"

\* the parameters of the batch-norm modules anywhere in the tree
RECURSIVE BatchNormParameters(_, _)
BatchNormParameters(module, path) ==
    IF module.kind = "bn" THEN SeqToSet(Parameters(module, path))
    ELSE UNION {BatchNormParameters(module.children[i], Append(path, 0 - i))
                : i \in 1..Len(module.children)}

\* C9: bnwd_optim_params returns two groups, the first with weight_decay 0,
\* that partition master_params: each master parameter is in exactly one
\* group, in the first iff its model parameter belongs to a batch-norm module
\* of the tree (the root included), in the order of master_params.
C9_Partition ==
    bpc = "returned" =>
        LET bn == BatchNormParameters(bmodel, << >>)
            IsBn(m) == m[2] \in bn
            IsRest(m) == m[2] \notin bn
        IN  /\ Len(bret) = 2
            /\ bret[1].weight_decay = 0
            /\ \A i \in 1..Len(master_params) :
                  Count(bret[1].params, master_params[i])
                    + Count(bret[2].params, master_params[i]) = 1
            /\ bret[1].params = SelectSeq(master_params, IsBn)
            /\ bret[2].params = SelectSeq(master_params, IsRest)

====
